---- MODULE Spec2Model ----
(***************************************************************************)
(* Model of app/utils/escapeSearchQuery.jsx: the helper that prepares a    *)
(* value for use in an events/issues search string.                        *)
(*                                                                         *)
(* A JavaScript value is a record [type, num, str]: `type` is the value's  *)
(* dynamic type, `num` the numeric payload (integers only), `str` the      *)
(* string payload as a sequence of one-character strings.  The outcome of  *)
(* a call is a record [type, str]: type "string" for a normal return,      *)
(* "TypeError" for a thrown exception, "none" while no call has been made. *)
(***************************************************************************)
EXTENDS Integers, Sequences, FiniteSets, TLC

\* ---------------------------------------------------------------- bounds
MaxLen == 3
MaxNum == 25

\* ------------------------------------------------------------ characters
DQUOTE == "\""
BACKSLASH == "\\"

Alphabet == {DQUOTE, BACKSLASH, "a"}

BoundedSeq(S, n) == UNION {[1..k -> S] : k \in 0..n}

\* the string literals of the unit tests
TestPlain == <<"t", "e", "s", "t">>
TestQuoted == <<DQUOTE, "t", "e", "s", "t", DQUOTE>>

Strings == BoundedSeq(Alphabet, MaxLen) \cup {TestPlain, TestQuoted}

\* the numeric literal of the unit tests
TestNumber == 1000

Numbers == (-MaxNum..MaxNum) \cup {TestNumber}

\* ---------------------------------------------------------------- values
NumberValue(n) == [type |-> "number", num |-> n, str |-> <<>>]
StringValue(s) == [type |-> "string", num |-> 0, str |-> s]
OtherValue(t, b) == [type |-> t, num |-> b, str |-> <<>>]

Null == OtherValue("null", 0)
Undefined == OtherValue("undefined", 0)

OtherValues ==
  {Null, Undefined, OtherValue("boolean", 0), OtherValue("boolean", 1),
   OtherValue("object", 0), OtherValue("array", 0)}

Values ==
  {NumberValue(n) : n \in Numbers} \cup {StringValue(s) : s \in Strings}
    \cup OtherValues

\* the `typeof` operator: null, plain objects and arrays are all "object"
TypeOf(v) ==
  CASE v.type = "number" -> "number"
    [] v.type = "string" -> "string"
    [] v.type = "boolean" -> "boolean"
    [] v.type = "undefined" -> "undefined"
    [] OTHER -> "object"

\* -------------------------------------------------------------- outcomes
Returned(s) == [type |-> "string", str |-> s]
Thrown == [type |-> "TypeError", str |-> <<>>]
NoResult == [type |-> "none", str |-> <<>>]

\* ------------------------------------------------ number to string cast
DigitChars == <<"0", "1", "2", "3", "4", "5", "6", "7", "8", "9">>

RECURSIVE NatToString(_)
NatToString(n) ==
  IF n < 10 THEN <<DigitChars[n + 1]>>
  ELSE NatToString(n \div 10) \o <<DigitChars[(n % 10) + 1]>>

\* `${value}` for an integer number
NumberToString(n) ==
  IF n < 0 THEN <<"-">> \o NatToString(-n) ELSE NatToString(n)

\* ------------------------------------------------- String.prototype.replace
\* s.replace(/c/g, repl) for a one-character pattern c
RECURSIVE ReplaceAll(_, _, _)
ReplaceAll(s, c, repl) ==
  IF s = <<>> THEN <<>>
  ELSE (IF Head(s) = c THEN repl ELSE <<Head(s)>>) \o ReplaceAll(Tail(s), c, repl)

\* ------------------------------------------------------ escapeSearchQuery
\* variant: the replacement is backslash + quote
escapeSearchQueryBackslash(value) ==
  IF TypeOf(value) = "number" THEN Returned(NumberToString(value.num))
  ELSE IF TypeOf(value) = "string"
       THEN Returned(ReplaceAll(value.str, DQUOTE, <<BACKSLASH, DQUOTE>>))
       ELSE Returned(<<>>)

\* variant: backslashes are doubled as well
escapeSearchQueryAlsoBackslashes(value) ==
  IF TypeOf(value) = "number" THEN Returned(NumberToString(value.num))
  ELSE IF TypeOf(value) = "string"
       THEN Returned(ReplaceAll(ReplaceAll(value.str, BACKSLASH, <<BACKSLASH, BACKSLASH>>),
                                DQUOTE, <<DQUOTE>>))
       ELSE Returned(<<>>)

\* variant: every non-string is cast with a template literal
escapeSearchQueryCastAll(value) ==
  IF TypeOf(value) = "string"
  THEN Returned(ReplaceAll(value.str, DQUOTE, <<DQUOTE>>))
  ELSE IF value.type = "number" THEN Returned(NumberToString(value.num))
  ELSE IF value.type = "null" THEN Returned(<<"n", "u", "l", "l">>)
  ELSE Returned(<<"x">>)

\* variant: no number branch
escapeSearchQueryNoNumber(value) ==
  IF TypeOf(value) = "string"
  THEN Returned(ReplaceAll(value.str, DQUOTE, <<DQUOTE>>))
  ELSE Returned(<<>>)

\* variant: no typeof guard before value.replace
escapeSearchQueryNoGuard(value) ==
  IF TypeOf(value) = "number" THEN Returned(NumberToString(value.num))
  ELSE IF TypeOf(value) = "string"
       THEN Returned(ReplaceAll(value.str, DQUOTE, <<DQUOTE>>))
       ELSE Thrown

escapeSearchQuery(value) ==
  IF TypeOf(value) = "number" THEN Returned(NumberToString(value.num))
  ELSE IF TypeOf(value) = "string"
       THEN Returned(ReplaceAll(value.str, DQUOTE, <<DQUOTE>>))
       ELSE Returned(<<>>)

\* ----------------------------------------------------------------- state
VARIABLES value, result, second

vars == <<value, result, second>>

Init ==
  /\ value = Undefined
  /\ result = NoResult
  /\ second = NoResult

\* a caller passes v to escapeSearchQuery
Call(v) ==
  /\ value' = v
  /\ result' = escapeSearchQuery(v)
  /\ second' = NoResult

\* a caller passes the string just returned through escapeSearchQuery again
CallAgain ==
  /\ result.type = "string"
  /\ second.type = "none"
  /\ second' = escapeSearchQuery(StringValue(result.str))
  /\ UNCHANGED <<value, result>>

Next ==
  \/ \E v \in Values : Call(v)
  \/ CallAgain

Spec == Init /\ [][Next]_vars

\* ------------------------------------------------------------ properties
Called == result.type # "none"

HasQuote(s) == \E i \in 1..Len(s) : s[i] = DQUOTE

QuoteCount(s) == Cardinality({i \in 1..Len(s) : s[i] = DQUOTE})

\* the string in which each quote of s is preceded by a backslash
RECURSIVE BackslashEscaped(_)
BackslashEscaped(s) ==
  IF s = <<>> THEN <<>>
  ELSE (IF Head(s) = DQUOTE THEN <<BACKSLASH, DQUOTE>> ELSE <<Head(s)>>)
         \o BackslashEscaped(Tail(s))

DigitValue(c) == CHOOSE d \in 0..9 : DigitChars[d + 1] = c

IsDigit(c) == \E d \in 0..9 : DigitChars[d + 1] = c

RECURSIVE ParseNat(_)
ParseNat(s) ==
  IF s = <<>> THEN 0
  ELSE 10 * ParseNat(SubSeq(s, 1, Len(s) - 1)) + DigitValue(s[Len(s)])

\* s is a non-empty digit string without a superfluous leading zero
IsCanonicalNat(s) ==
  /\ Len(s) >= 1
  /\ \A i \in 1..Len(s) : IsDigit(s[i])
  /\ (Len(s) > 1 => s[1] # "0")

\* s is the decimal representation of the integer n
IsDecimalOf(s, n) ==
  IF n < 0
  THEN /\ Len(s) >= 2
       /\ s[1] = "-"
       /\ IsCanonicalNat(Tail(s))
       /\ ParseNat(Tail(s)) = -n
  ELSE /\ IsCanonicalNat(s)
       /\ ParseNat(s) = n

\* C1: for a string input the result is the input with each double quote
\* replaced by backslash + double quote and every other character kept.
C1_BackslashEscaping ==
  (Called /\ value.type = "string")
    => result = Returned(BackslashEscaped(value.str))

C3_LengthPlusQuotes ==
  (Called /\ value.type = "string")
    => /\ result.type = "string"
       /\ Len(result.str) = Len(value.str) + QuoteCount(value.str)

\* C4: a string input without any double quote (the empty string included)
\* is returned unchanged.
C4_NoQuoteUnchanged ==
  (Called /\ value.type = "string" /\ ~HasQuote(value.str))
    => result = Returned(value.str)

C4_Witness ==
  /\ Called
  /\ value.type = "string"
  /\ ~HasQuote(value.str)
  /\ \E i \in 1..Len(value.str) : value.str[i] = BACKSLASH

\* C5: an input that is neither a number nor a string yields the empty
\* string.
C5_OtherTypesEmpty ==
  (Called /\ value.type \notin {"number", "string"})
    => result = Returned(<<>>)

C5_Witness ==
  /\ Called
  /\ value = Null
  /\ result.str = <<>>

C7_TotalStringValued ==
  /\ (Called => (result.type = "string" /\ result.str \in Seq(STRING)))
  /\ (second.type # "none" => (second.type = "string" /\ second.str \in Seq(STRING)))

C7_Witness ==
  /\ Called
  /\ TypeOf(value) = "object"
  /\ result.type = "string"

\* C8: for a string input containing a double quote, a second pass over the
\* result gives something different from the result of the first pass.
C8_NotIdempotent ==
  (second.type # "none" /\ value.type = "string" /\ HasQuote(value.str))
    => second # result

\* C10: in the result for a string input every double quote is immediately
\* preceded by a backslash.
C10_NoBareQuote ==
  (Called /\ value.type = "string")
    => \A i \in 1..Len(result.str) :
         result.str[i] = DQUOTE => (i > 1 /\ result.str[i - 1] = BACKSLASH)

====
